---- MODULE Spec2Model ----
(***************************************************************************)
(* Model of streamlit.py, the layoffs dashboard script.                    *)
(*                                                                         *)
(* The script is one top-to-bottom run that Streamlit repeats on every     *)
(* widget change.  load_data() is wrapped in st.cache, so the object it    *)
(* returns on the first run is the object every later run binds to df.     *)
(* Each statement group of the script that builds one table is one action; *)
(* pc is the position of the run in the script.                            *)
(*                                                                         *)
(* Numbers are exact rationals (the program uses float64; rounding is not  *)
(* modelled), a missing number is NaN.  pandas semantics are those of the  *)
(* releases that still ship st.cache (no copy-on-write: fillna with        *)
(* inplace=True on df[col] fills df).                                      *)
(***************************************************************************)
EXTENDS Integers, Sequences, FiniteSets, TLC

VARIABLES
    source,                 \* the file layoffs_data.csv as read_csv finds it
    tiePolicy,              \* how this build's sort orders equal keys
    pc,                     \* position of the current script run
    error,                  \* the exception that stopped the run, or "none"
    cacheFilled,            \* st.cache holds a value for load_data()
    df,                     \* module-level df: the object held by the cache
    dfWrites,               \* script positions that assigned into df after load_data returned
    widget,                 \* the two sidebar selections kept by the session
    runs,                   \* reruns done so far
    industry_filter,
    country_filter,
    df_filtered,            \* bound at line 47 and again at line 172
    top_countries,
    country_layoffs,
    top_industries_recent,
    df_time_series,
    top_companies,
    top_companies_data,
    top_companies_filtered,
    stage_layoffs,
    scatter,
    prev                    \* what the previous completed run selected and built

vars == << source, tiePolicy, pc, error, cacheFilled, df, dfWrites, widget, runs,
           industry_filter, country_filter, df_filtered, top_countries,
           country_layoffs, top_industries_recent, df_time_series, top_companies,
           top_companies_data, top_companies_filtered, stage_layoffs, scatter, prev >>

-----------------------------------------------------------------------------
(* Bounds of the model *)

MaxTail == 2        \* free records appended to the generated block of records
MaxReruns == 1      \* script reruns after the first run
FillerLen == 49     \* records of the generated block
MaxLoadRows == 3    \* records of a file of the loader runs

-----------------------------------------------------------------------------
(* Numbers: float64 values as exact rationals in lowest terms, or NaN *)

NaN == [nan |-> TRUE, n |-> 0, d |-> 1]

Abs(x) == IF x < 0 THEN -x ELSE x

RECURSIVE GCD(_, _)
GCD(a, b) == IF b = 0 THEN a ELSE GCD(b, a % b)

Rat(n, d) ==
    LET g == GCD(Abs(n), Abs(d))
        s == IF d < 0 THEN -1 ELSE 1
    IN  [nan |-> FALSE, n |-> s * (n \div g), d |-> s * (d \div g)]

Num(i) == [nan |-> FALSE, n |-> i, d |-> 1]

Add(a, b) ==
    IF a.nan \/ b.nan THEN NaN
    ELSE LET l == (a.d \div GCD(a.d, b.d)) * b.d
         IN  Rat(a.n * (l \div a.d) + b.n * (l \div b.d), l)

\* float division: 0/0 is NaN (x/0 with x > 0 is inf, not reached: counts are >= 0
\* and a zero total means every term is zero)
Mul(a, b) ==
    IF a.nan \/ b.nan THEN NaN
    ELSE LET g == GCD(Abs(a.n), b.d)
             h == GCD(Abs(b.n), a.d)
         IN  Rat((a.n \div g) * (b.n \div h), (a.d \div h) * (b.d \div g))

Div(a, b) ==
    IF a.nan \/ b.nan \/ b.n = 0 THEN NaN
    ELSE Mul(a, [nan |-> FALSE, n |-> IF b.n < 0 THEN -b.d ELSE b.d, d |-> Abs(b.n)])

Greater(a, b) == ~a.nan /\ ~b.nan /\ a.n * b.d > b.n * a.d

\* Series.sum(): missing values are skipped, the sum of nothing is 0
RECURSIVE SumRange(_, _, _)
SumRange(s, lo, hi) ==
    IF lo > hi THEN Num(0)
    ELSE IF lo = hi THEN (IF s[lo].nan THEN Num(0) ELSE s[lo])
    ELSE LET mid == (lo + hi) \div 2
         IN  Add(SumRange(s, lo, mid), SumRange(s, mid + 1, hi))

Sum(s) == SumRange(s, 1, Len(s))

NotNaN(s) == SelectSeq(s, LAMBDA x : ~x.nan)

\* Mean with the missing entries counted in the divisor
MeanOverAllEntries(s) == Div(Sum(s), Num(Len(s)))

\* Series.mean(): the mean of the non-missing values, NaN when there is none
Mean(s) == Div(Sum(s), Num(Len(NotNaN(s))))

\* Series.fillna(value): every missing entry becomes value, the others stay
FillNa(s, value) == [i \in DOMAIN s |-> IF s[i].nan THEN value ELSE s[i]]

Min(a, b) == IF a < b THEN a ELSE b

-----------------------------------------------------------------------------
(* Strings.  groupby sorts its group keys, so the model needs Python's      *)
(* string order: SortedNames lists every string of the model in that order. *)

SortedNames == <<
    "Acme", "Acquired", "Bengaluru", "Berlin", "Brazil", "Canada", "Co01", "Co02",
    "Co03", "Co04", "Co05", "Co06", "Co07", "Co08", "Co09", "Co10", "Co11", "Co12",
    "Co13", "Co14", "Co15", "Co16", "Co17", "Co18", "Co19", "Co20", "Co21", "Co22",
    "Co23", "Co24", "Co25", "Co26", "Co27", "Co28", "Co29", "Co30", "Co31", "Co32",
    "Co33", "Co34", "Co35", "Co36", "Co37", "Co38", "Co39", "Co40", "Co41", "Co42",
    "Co43", "Co44", "Co45", "Co46", "Co47", "Co48", "Co49", "Co50", "Co51", "Co52",
    "Co53", "Co54", "Co55", "Co56", "Co57", "Co58", "Co59", "Co60", "Crypto", "Energy",
    "Finance", "Germany", "Healthcare", "India", "Other", "Post-IPO", "Private Equity",
    "Retail", "SF Bay Area", "Sao Paulo", "Seed", "Series A", "Stockholm", "Sweden",
    "Toronto", "Travel", "United States", "United States Virgin Islands",
    "United States of America", "Unknown", "Zeta" >>

Rank == [s \in {SortedNames[i] : i \in DOMAIN SortedNames} |->
            CHOOSE i \in DOMAIN SortedNames : SortedNames[i] = s]

\* tuple comparison of group keys made of strings
RECURSIVE KeyLessFrom(_, _, _)
KeyLessFrom(a, b, i) ==
    IF i > Len(a) THEN FALSE
    ELSE IF a[i] = b[i] THEN KeyLessFrom(a, b, i + 1)
    ELSE Rank[a[i]] < Rank[b[i]]

KeyLess(a, b) == KeyLessFrom(a, b, 1)

\* order of two group keys: the key of a grouping by year is one integer, the
\* others are tuples of strings
KeyBefore(a, b, by) == IF by = << "Date.year" >> THEN a[1] < b[1] ELSE KeyLess(a, b)

-----------------------------------------------------------------------------
(* Dates.  A raw Date is the text of the csv cell; to_datetime turns it     *)
(* into a timestamp, and raises on text that is no date.                    *)

DateTexts == <<
    [text |-> "2019-12-31", year |-> 2019, month |-> 12, day |-> 31],
    [text |-> "2020-01-01", year |-> 2020, month |-> 1,  day |-> 1],
    [text |-> "2022-06-15", year |-> 2022, month |-> 6,  day |-> 15],
    [text |-> "2023-03-01", year |-> 2023, month |-> 3,  day |-> 1] >>

RawDate(text) == [kind |-> "str", text |-> text, year |-> 0, month |-> 0, day |-> 0]

Parseable(v) == v.kind = "ts" \/ \E i \in DOMAIN DateTexts : DateTexts[i].text = v.text

\* pd.to_datetime on one value: text is parsed, a timestamp is returned as it is
ToDatetimeValue(v) ==
    IF v.kind = "ts" THEN v
    ELSE LET e == DateTexts[CHOOSE i \in DOMAIN DateTexts : DateTexts[i].text = v.text]
         IN  [kind |-> "ts", text |-> "", year |-> e.year, month |-> e.month, day |-> e.day]

\* df['Date'] = pd.to_datetime(df['Date'])
ToDatetimeColumn(rows) ==
    [i \in DOMAIN rows |-> [rows[i] EXCEPT !.Date = ToDatetimeValue(rows[i].Date)]]

AllParseable(rows) == \A i \in DOMAIN rows : Parseable(rows[i].Date)

-----------------------------------------------------------------------------
(* load_data *)

Columns == {"Company", "Industry", "Country", "Location_HQ", "Stage", "Date",
            "Laid_Off_Count", "Funds_Raised", "Percentage"}

Column(rows, c) == [i \in DOMAIN rows |-> rows[i][c]]

\* df[c].fillna(df[c].mean(), inplace=True)
FillMean(rows, c) ==
    LET filled == FillNa(Column(rows, c), Mean(Column(rows, c)))
    IN  [i \in DOMAIN rows |-> [rows[i] EXCEPT ![c] = filled[i]]]

\* ReplaceCountry rewriting every value that begins with "United States"
ReplaceCountryByPrefix(v) ==
    IF v \in {"United States", "United States Virgin Islands"}
    THEN "United States of America" ELSE v

\* Series.replace({'United States': 'United States of America'}): whole values
ReplaceCountry(v) == IF v = "United States" THEN "United States of America" ELSE v

NormalizeCountry(rows) ==
    [i \in DOMAIN rows |-> [rows[i] EXCEPT !.Country = ReplaceCountry(rows[i].Country)]]

\* LoadError with a missing file read as a file without records
LoadErrorMissingFileIsEmpty(src) ==
    IF ~src.readable THEN "none"
    ELSE IF ~(Columns \subseteq src.cols) THEN "KeyError"
    ELSE IF ~AllParseable(src.rows) THEN "ValueError"
    ELSE "none"

\* the exception load_data raises on this file, "none" when it returns
LoadError(src) ==
    IF ~src.readable THEN "FileNotFoundError"
    ELSE IF "Laid_Off_Count" \notin src.cols THEN "KeyError"
    ELSE IF "Funds_Raised" \notin src.cols THEN "KeyError"
    ELSE IF "Percentage" \notin src.cols THEN "KeyError"
    ELSE IF "Date" \notin src.cols THEN "KeyError"
    ELSE IF ~AllParseable(src.rows) THEN "ValueError"
    ELSE IF "Country" \notin src.cols THEN "KeyError"
    ELSE "none"

\* the value load_data returns when it raises nothing
LoadResult(src) ==
    NormalizeCountry(
      ToDatetimeColumn(
        FillMean(FillMean(FillMean(src.rows, "Laid_Off_Count"), "Funds_Raised"),
                 "Percentage")))

-----------------------------------------------------------------------------
(* pandas operations the views are made of.  A table is a sequence of rows; *)
(* a grouped table has one row [key, Laid_Off_Count] per group, key being   *)
(* the tuple of the group's key values.                                     *)

\* Series.unique(): the distinct values in order of first appearance
Unique(s) ==
    LET first == SelectSeq([i \in DOMAIN s |-> i],
                           LAMBDA i : \A j \in 1..(i - 1) : s[j] # s[i])
    IN  [k \in DOMAIN first |-> s[first[k]]]

\* a function on 1..n as the sequence of its values
AsSeq(f) == f \o << >>

\* the rows of s placed at the positions place gives them
Placed(s, place) == [p \in DOMAIN s |-> s[CHOOSE i \in DOMAIN s : place[i] = p]]

\* groupby(...) sorts the group keys (sort=True is the default)
SortedKeys(keys, by) ==
    Placed(keys, AsSeq([i \in DOMAIN keys |->
        1 + Cardinality({j \in DOMAIN keys : KeyBefore(keys[j], keys[i], by)})]))

\* the group key of record r when grouping by the columns by; "Date.year" is the
\* series df['Date'].dt.year
KeyOf(r, by) ==
    AsSeq([i \in DOMAIN by |-> IF by[i] = "Date.year" THEN r.Date.year ELSE r[by[i]]])

GroupSum(rows, by, key) ==
    Sum(Column(SelectSeq(rows, LAMBDA r : KeyOf(r, by) = key), "Laid_Off_Count"))

\* rows.groupby(by)['Laid_Off_Count'].sum().reset_index()
GroupBySum(rows, by) ==
    LET u == Unique([i \in DOMAIN rows |-> KeyOf(rows[i], by)])
        keys == SortedKeys(AsSeq(u), by)
    IN  [i \in DOMAIN keys |->
            [key |-> keys[i], Laid_Off_Count |-> GroupSum(rows, by, keys[i])]]

\* sort_values(ascending=False) with the default kind='quicksort', which is not a
\* stable sort: rows with equal values come out in an order the build decides.
\* "keep" leaves them in their order in the input, "reverse" reverses them.
SortDesc(table, policy) ==
    Placed(table, AsSeq([i \in DOMAIN table |->
        1 + Cardinality({j \in DOMAIN table :
                \/ Greater(table[j].Laid_Off_Count, table[i].Laid_Off_Count)
                \/ /\ table[j].Laid_Off_Count = table[i].Laid_Off_Count
                   /\ IF policy = "keep" THEN j < i ELSE j > i})]))

\* HeadRows taking the last n rows
TailRows(table, n) == SubSeq(table, Len(table) - Min(n, Len(table)) + 1, Len(table))

\* .head(n)
HeadRows(table, n) == SubSeq(table, 1, Min(n, Len(table)))

-----------------------------------------------------------------------------
(* The views of the script *)

CountryOptions == << "United States of America", "India" >>

valid_stages == {"Acquired", "Post-IPO", "Private Equity", "Seed"}

ByCountry == << "Country" >>
ByIndustry == << "Industry" >>
ByCompany == << "Company" >>
ByYear == << "Date.year" >>
ByStage == << "Stage" >>
ByCompanyFields == << "Company", "Industry", "Location_HQ", "Country" >>
ByCompanyIndustry == << "Company", "Industry" >>

\* line 41: the options of the industry selectbox
IndustryOptions(rows) == Unique(Column(rows, "Industry"))

\* a selectbox returns the session's selection, its first option before any
\* selection was made, None when it has no option
SelectboxValue(options, selection) ==
    IF selection # "<default>" THEN selection
    ELSE IF Len(options) = 0 THEN "<None>" ELSE options[1]

\* FilteredSlice without the country condition
FilteredSliceIndustryOnly(rows, industry, country) ==
    SelectSeq(rows, LAMBDA r : r.Industry = industry)

\* line 47
FilteredSlice(rows, industry, country) ==
    SelectSeq(rows, LAMBDA r : r.Industry = industry /\ r.Country = country)

\* lines 53-59
TopCountries(rows, policy) ==
    HeadRows(SortDesc(GroupBySum(rows, ByCountry), policy), 5)

\* CountryLayoffs sorted with the default ascending=True
CountryLayoffsAscending(rows, policy) ==
    LET s == SortDesc(GroupBySum(rows, ByCountry), policy)
    IN  [i \in DOMAIN s |-> s[Len(s) + 1 - i]]

\* lines 75-78
CountryLayoffs(rows, policy) == SortDesc(GroupBySum(rows, ByCountry), policy)

\* line 118
RecentYears(rows) ==
    SelectSeq(rows, LAMBDA r : r.Date.year \in {2022, 2023} /\ r.Industry # "Other")

\* lines 121-127
TopIndustriesRecent(rows, policy) ==
    HeadRows(SortDesc(GroupBySum(RecentYears(rows), ByIndustry), policy), 5)

\* TimeSeries giving one row of zero for a slice without records
TimeSeriesZeroRow(slice) ==
    IF Len(slice) = 0 THEN << [key |-> << 0 >>, Laid_Off_Count |-> Num(0)] >>
    ELSE GroupBySum(slice, ByYear)

\* lines 151-152
TimeSeries(slice) == GroupBySum(slice, ByYear)

\* line 169
TopCompanies(rows, policy) ==
    HeadRows(SortDesc(GroupBySum(rows, ByCompany), policy), 10)

\* line 172
SinceCutoff(rows) == SelectSeq(rows, LAMBDA r : r.Date.year >= 2020)

\* line 185
WithPercentage(table) ==
    LET total == Sum(Column(table, "Laid_Off_Count"))
    IN  [i \in DOMAIN table |->
            [key |-> table[i].key,
             Laid_Off_Count |-> table[i].Laid_Off_Count,
             Percentage |-> Mul(Div(table[i].Laid_Off_Count, total), Num(100))]]

\* TopCompaniesData with the percentage taken before the truncation
TopCompaniesDataPercentageFirst(slice, policy) ==
    HeadRows(WithPercentage(SortDesc(GroupBySum(slice, ByCompanyFields), policy)), 50)

\* lines 175-185
TopCompaniesData(slice, policy) ==
    WithPercentage(HeadRows(SortDesc(GroupBySum(slice, ByCompanyFields), policy), 50))

\* lines 237-241
TopCompaniesFiltered(slice, industry, policy) ==
    HeadRows(SortDesc(GroupBySum(SelectSeq(slice, LAMBDA r : r.Industry = industry),
                             ByCompanyIndustry), policy), 10)

\* lines 286-290
StageLayoffs(rows) ==
    GroupBySum(SelectSeq(rows, LAMBDA r : r.Stage \in valid_stages), ByStage)

\* line 306: the frame handed to px.scatter, read by its two bound columns
Scatter(rows) ==
    [i \in DOMAIN rows |->
        [Funds_Raised |-> rows[i].Funds_Raised, Laid_Off_Count |-> rows[i].Laid_Off_Count]]

-----------------------------------------------------------------------------
(* The files the model is run on *)

Row(company, industry, country, location, stage, date, count, funds, pct) ==
    [Company |-> company, Industry |-> industry, Country |-> country,
     Location_HQ |-> location, Stage |-> stage, Date |-> RawDate(date),
     Laid_Off_Count |-> count, Funds_Raised |-> funds, Percentage |-> pct]

Stages == << "Acquired", "Post-IPO", "Private Equity", "Seed", "Series A", "Unknown" >>

LocationOf(country) ==
    CASE country = "Canada" -> "Toronto"
      [] country = "Germany" -> "Berlin"
      [] country = "India" -> "Bengaluru"
      [] country = "Brazil" -> "Sao Paulo"
      [] country = "Sweden" -> "Stockholm"
      [] OTHER -> "SF Bay Area"

\* the i-th record of the generated block: company "Co<i>", every record dated
\* 2020 or later, some numbers missing
FillerRow(i) ==
    LET country == << "Canada", "Germany", "India", "United States" >>[(i % 4) + 1]
    IN  Row(SubSeq(SortedNames, 7, 66)[i],
            IF i % 10 = 0 THEN "Other"
            ELSE IF i <= 9 THEN "Finance"
            ELSE << "Healthcare", "Retail", "Travel" >>[(i % 3) + 1],
            country, LocationOf(country), Stages[(i % 6) + 1],
            << "2020-01-01", "2022-06-15", "2023-03-01" >>[((i \div 2) % 3) + 1],
            IF i % 11 = 0 THEN NaN ELSE Num(10 * (1 + (i % 5))),
            IF i % 7 = 0 THEN NaN ELSE Num(100 + i),
            IF i % 8 = 0 THEN NaN ELSE Rat(i % 20, 100))

Filler(k) == [i \in 1..k |-> FillerRow(i)]

SeqsUpTo(S, n) == UNION {[1..k -> S] : k \in 0..n}

File(rows) == [readable |-> TRUE, cols |-> Columns, rows |-> rows]

\* records that differ in what the selections and the year filters read
ScriptRows ==
    {Row(c, ind, ctry, LocationOf(ctry), "Seed", d,
         IF c = "Acme" THEN Num(10) ELSE Num(25), Num(5), Num(1)) :
        c \in {"Acme", "Zeta"}, ind \in {"Finance", "Retail"},
        ctry \in {"India", "United States", "Canada"},
        d \in {"2019-12-31", "2022-06-15"}}

\* records that differ in what load_data rewrites
LoadRows ==
    {Row("Acme", "Finance", "United States", "SF Bay Area", "Seed", "2022-06-15",
         n, m[1], m[2]) :
        n \in {NaN, Num(10), Num(25)},
        m \in {<< NaN, Rat(1, 2) >>, << Num(7), NaN >>, << Num(3), Rat(1, 4) >>}}
    \cup
    {Row("Zeta", "Finance", ctry, LocationOf(ctry), "Post-IPO", "2023-03-01",
         Num(40), Num(9), Num(1)) :
        ctry \in {"United States", "United States Virgin Islands",
                  "United States of America", "India"}}

\* records that add groups to the generated block and tie with each other
TopRows ==
    {Row(c, IF c = "Acme" THEN "Crypto" ELSE "Energy",
         IF c = "Acme" THEN "Brazil" ELSE "Sweden",
         IF c = "Acme" THEN "Sao Paulo" ELSE "Stockholm", "Acquired", d, n,
         Num(50), Num(1)) :
        c \in {"Acme", "Zeta"}, d \in {"2019-12-31", "2023-03-01"},
        n \in {Num(0), Num(40)}}

SampleRows ==
    << Row("Acme", "Finance", "United States", "SF Bay Area", "Seed", "2022-06-15",
           Num(10), NaN, Num(1)),
       Row("Zeta", "Retail", "India", "Bengaluru", "Post-IPO", "2019-12-31",
           NaN, Num(5), Num(2)) >>

\* files load_data or a later statement cannot work with
BrokenFiles ==
    {[readable |-> FALSE, cols |-> Columns, rows |-> << >>]}
    \cup {[readable |-> TRUE, cols |-> Columns \ {c}, rows |-> SampleRows] : c \in Columns}
    \cup {File(Append(SampleRows, [SampleRows[1] EXCEPT !.Date = RawDate("n/a")]))}

ScriptFiles == {File(r) : r \in SeqsUpTo(ScriptRows, MaxTail)} \cup BrokenFiles

LoadFiles == {File(r) : r \in SeqsUpTo(LoadRows, MaxLoadRows)} \cup BrokenFiles

\* the generated block is followed by records dated after the 2020 cutoff only
TopFiles ==
    {File(r) : r \in SeqsUpTo(TopRows, MaxTail)}
    \cup {File(Filler(FillerLen) \o r) :
            r \in SeqsUpTo({x \in TopRows : x.Date.text = "2023-03-01"}, MaxTail)}
    \cup BrokenFiles

-----------------------------------------------------------------------------
(* The script *)

views == << top_countries, country_layoffs, top_industries_recent, df_time_series,
            top_companies, top_companies_data, top_companies_filtered, stage_layoffs,
            scatter >>

session == << source, tiePolicy, cacheFilled, widget, runs, prev >>

Snapshot(valid) ==
    [valid |-> valid,
     industry_filter |-> industry_filter, country_filter |-> country_filter,
     top_countries |-> top_countries, country_layoffs |-> country_layoffs,
     top_industries_recent |-> top_industries_recent,
     df_time_series |-> df_time_series, top_companies |-> top_companies,
     top_companies_data |-> top_companies_data,
     top_companies_filtered |-> top_companies_filtered,
     stage_layoffs |-> stage_layoffs, scatter |-> scatter]

\* a script run starts with none of the script's names bound
Unbound ==
    /\ industry_filter = "<unbound>" /\ country_filter = "<unbound>"
    /\ df_filtered = << >>
    /\ top_countries = << >> /\ country_layoffs = << >>
    /\ top_industries_recent = << >> /\ df_time_series = << >>
    /\ top_companies = << >> /\ top_companies_data = << >>
    /\ top_companies_filtered = << >> /\ stage_layoffs = << >> /\ scatter = << >>

Unbind ==
    /\ industry_filter' = "<unbound>" /\ country_filter' = "<unbound>"
    /\ df_filtered' = << >>
    /\ top_countries' = << >> /\ country_layoffs' = << >>
    /\ top_industries_recent' = << >> /\ df_time_series' = << >>
    /\ top_companies' = << >> /\ top_companies_data' = << >>
    /\ top_companies_filtered' = << >> /\ stage_layoffs' = << >> /\ scatter' = << >>

InitFrom(files, policies) ==
    /\ source \in files
    /\ tiePolicy \in policies
    /\ pc = "load"
    /\ error = "none"
    /\ cacheFilled = FALSE
    /\ df = << >>
    /\ dfWrites = {}
    /\ widget = [industry |-> "<default>", country |-> "<default>"]
    /\ runs = 0
    /\ Unbound
    /\ prev = Snapshot(FALSE)

Init == InitFrom(ScriptFiles, {"keep", "reverse"})

InitLoad == InitFrom(LoadFiles, {"keep"})

InitTop == InitFrom(TopFiles, {"keep", "reverse"})

\* an uncaught exception ends the run
Raise(exc) ==
    /\ error' = exc
    /\ pc' = "failed"

\* lines 15-29, first call: load_data runs and st.cache keeps what it returns
LoadData ==
    /\ pc = "load" /\ ~cacheFilled
    /\ LoadError(source) = "none"
    /\ df' = LoadResult(source)
    /\ cacheFilled' = TRUE
    /\ pc' = "select"
    /\ UNCHANGED << source, tiePolicy, error, dfWrites, widget, runs, prev,
                    industry_filter, country_filter, df_filtered, views >>

\* lines 15-29, first call: load_data raises, nothing is cached, df is not bound
LoadDataRaises ==
    /\ pc = "load" /\ ~cacheFilled
    /\ LoadError(source) # "none"
    /\ Raise(LoadError(source))
    /\ UNCHANGED << session, df, dfWrites, industry_filter, country_filter,
                    df_filtered, views >>

\* lines 15-29, later runs: st.cache returns the object it holds
LoadDataCached ==
    /\ pc = "load" /\ cacheFilled
    /\ pc' = "select"
    /\ UNCHANGED << session, error, df, dfWrites, industry_filter, country_filter,
                    df_filtered, views >>

\* lines 41-47
SelectFilters ==
    /\ pc = "select"
    /\ IF "Industry" \notin source.cols
       THEN /\ Raise("KeyError")
            /\ UNCHANGED << industry_filter, country_filter, df_filtered >>
       ELSE LET industry == SelectboxValue(IndustryOptions(df), widget.industry)
                country == SelectboxValue(CountryOptions, widget.country)
            IN  /\ industry_filter' = industry
                /\ country_filter' = country
                /\ df_filtered' = FilteredSlice(df, industry, country)
                /\ pc' = "top_countries"
                /\ error' = error
    /\ UNCHANGED << session, df, dfWrites, views >>

\* lines 53-59
BuildTopCountries ==
    /\ pc = "top_countries"
    /\ top_countries' = TopCountries(df, tiePolicy)
    /\ pc' = "country_layoffs"
    /\ UNCHANGED << session, error, df, dfWrites, industry_filter, country_filter,
                    df_filtered, country_layoffs, top_industries_recent,
                    df_time_series, top_companies, top_companies_data,
                    top_companies_filtered, stage_layoffs, scatter >>

\* lines 75-78
BuildCountryLayoffs ==
    /\ pc = "country_layoffs"
    /\ country_layoffs' = CountryLayoffs(df, tiePolicy)
    /\ pc' = "top_industries_recent"
    /\ UNCHANGED << session, error, df, dfWrites, industry_filter, country_filter,
                    df_filtered, top_countries, top_industries_recent,
                    df_time_series, top_companies, top_companies_data,
                    top_companies_filtered, stage_layoffs, scatter >>

\* lines 118-127
BuildTopIndustriesRecent ==
    /\ pc = "top_industries_recent"
    /\ top_industries_recent' = TopIndustriesRecent(df, tiePolicy)
    /\ pc' = "df_time_series"
    /\ UNCHANGED << session, error, df, dfWrites, industry_filter, country_filter,
                    df_filtered, top_countries, country_layoffs,
                    df_time_series, top_companies, top_companies_data,
                    top_companies_filtered, stage_layoffs, scatter >>

\* lines 151-152
BuildTimeSeries ==
    /\ pc = "df_time_series"
    /\ df_time_series' = TimeSeries(df_filtered)
    /\ pc' = "top_companies"
    /\ UNCHANGED << session, error, df, dfWrites, industry_filter, country_filter,
                    df_filtered, top_countries, country_layoffs,
                    top_industries_recent, top_companies, top_companies_data,
                    top_companies_filtered, stage_layoffs, scatter >>

\* line 169
BuildTopCompanies ==
    /\ pc = "top_companies"
    /\ IF "Company" \notin source.cols
       THEN Raise("KeyError") /\ UNCHANGED top_companies
       ELSE /\ top_companies' = TopCompanies(df, tiePolicy)
            /\ pc' = "refilter"
            /\ error' = error
    /\ UNCHANGED << session, df, dfWrites, industry_filter, country_filter,
                    df_filtered, top_countries, country_layoffs,
                    top_industries_recent, df_time_series, top_companies_data,
                    top_companies_filtered, stage_layoffs, scatter >>

\* Refilter cutting the slice of line 47 instead of df
RefilterFromSlice ==
    /\ pc = "refilter"
    /\ df' = ToDatetimeColumn(df)
    /\ dfWrites' = dfWrites \cup {171}
    /\ df_filtered' = SinceCutoff(df_filtered)
    /\ pc' = "top_companies_data"
    /\ UNCHANGED << session, error, industry_filter, country_filter, views >>

\* lines 171-172: the Date column of df is assigned, then df_filtered is bound again
Refilter ==
    /\ pc = "refilter"
    /\ df' = ToDatetimeColumn(df)
    /\ dfWrites' = dfWrites \cup {171}
    /\ df_filtered' = SinceCutoff(df')
    /\ pc' = "top_companies_data"
    /\ UNCHANGED << session, error, industry_filter, country_filter, views >>

\* lines 175-185
BuildTopCompaniesData ==
    /\ pc = "top_companies_data"
    /\ IF "Location_HQ" \notin source.cols
       THEN Raise("KeyError") /\ UNCHANGED top_companies_data
       ELSE /\ top_companies_data' = TopCompaniesData(df_filtered, tiePolicy)
            /\ pc' = "top_companies_filtered"
            /\ error' = error
    /\ UNCHANGED << session, df, dfWrites, industry_filter, country_filter,
                    df_filtered, top_countries, country_layoffs,
                    top_industries_recent, df_time_series, top_companies,
                    top_companies_filtered, stage_layoffs, scatter >>

\* lines 237-241
BuildTopCompaniesFiltered ==
    /\ pc = "top_companies_filtered"
    /\ top_companies_filtered' =
           TopCompaniesFiltered(df_filtered, industry_filter, tiePolicy)
    /\ pc' = "stage_layoffs"
    /\ UNCHANGED << session, error, df, dfWrites, industry_filter, country_filter,
                    df_filtered, top_countries, country_layoffs,
                    top_industries_recent, df_time_series, top_companies,
                    top_companies_data, stage_layoffs, scatter >>

\* lines 286-290
BuildStageLayoffs ==
    /\ pc = "stage_layoffs"
    /\ IF "Stage" \notin source.cols
       THEN Raise("KeyError") /\ UNCHANGED stage_layoffs
       ELSE /\ stage_layoffs' = StageLayoffs(df)
            /\ pc' = "scatter"
            /\ error' = error
    /\ UNCHANGED << session, df, dfWrites, industry_filter, country_filter,
                    df_filtered, top_countries, country_layoffs,
                    top_industries_recent, df_time_series, top_companies,
                    top_companies_data, top_companies_filtered, scatter >>

\* lines 306-317
BuildScatter ==
    /\ pc = "scatter"
    /\ scatter' = Scatter(df)
    /\ pc' = "done"
    /\ UNCHANGED << session, error, df, dfWrites, industry_filter, country_filter,
                    df_filtered, top_countries, country_layoffs,
                    top_industries_recent, df_time_series, top_companies,
                    top_companies_data, top_companies_filtered, stage_layoffs >>

\* the values the industry selectbox offers
IndustryChoices ==
    IF Len(df) = 0 THEN {"<None>"}
    ELSE {IndustryOptions(df)[i] : i \in DOMAIN IndustryOptions(df)}

\* Streamlit runs the script again, in a fresh namespace, with the new selection
RerunWith(industry, country) ==
    /\ pc = "done"
    /\ runs < MaxReruns
    /\ << industry, country >> # << industry_filter, country_filter >>
    /\ widget' = [industry |-> industry, country |-> country]
    /\ runs' = runs + 1
    /\ prev' = Snapshot(TRUE)
    /\ pc' = "load"
    /\ Unbind
    /\ UNCHANGED << source, tiePolicy, cacheFilled, error, df, dfWrites >>

\* the user picks another entry of a sidebar selectbox (lines 41 and 44)
Rerun ==
    \E industry \in IndustryChoices :
        \E i \in DOMAIN CountryOptions : RerunWith(industry, CountryOptions[i])

\* a caller that does not go through the selectbox hands line 47 another country
CallerCountries == {"Canada", "United States"}

CallerRerun ==
    \E industry \in IndustryChoices :
        \E country \in CallerCountries : RerunWith(industry, country)

Next ==
    \/ LoadData
    \/ LoadDataRaises
    \/ LoadDataCached
    \/ SelectFilters
    \/ BuildTopCountries
    \/ BuildCountryLayoffs
    \/ BuildTopIndustriesRecent
    \/ BuildTimeSeries
    \/ BuildTopCompanies
    \/ Refilter
    \/ BuildTopCompaniesData
    \/ BuildTopCompaniesFiltered
    \/ BuildStageLayoffs
    \/ BuildScatter
    \/ Rerun

NextCaller == Next \/ CallerRerun

Spec == Init /\ [][Next]_vars

SpecLoad == InitLoad /\ [][Next]_vars

SpecTop == InitTop /\ [][Next]_vars

SpecCaller == Init /\ [][NextCaller]_vars

-----------------------------------------------------------------------------
(* Properties *)

ScriptOrder == << "load", "select", "top_countries", "country_layoffs",
                  "top_industries_recent", "df_time_series", "top_companies",
                  "refilter", "top_companies_data", "top_companies_filtered",
                  "stage_layoffs", "scatter", "done" >>

Position(p) == CHOOSE i \in DOMAIN ScriptOrder : ScriptOrder[i] = p

\* the current run has executed the step named step
Built(step) == pc # "failed" /\ Position(pc) > Position(step)

\* the sum of Laid_Off_Count over the records of rows whose key is k
TotalOf(rows, by, k) ==
    Sum([i \in DOMAIN rows |->
            IF KeyOf(rows[i], by) = k THEN rows[i].Laid_Off_Count ELSE Num(0)])

KeysOf(rows, by) == {KeyOf(rows[i], by) : i \in DOMAIN rows}

\* the groups of rows: each key with the sum over the records that have it
Groups(rows, by) ==
    {[key |-> k, Laid_Off_Count |-> TotalOf(rows, by, k)] : k \in KeysOf(rows, by)}

RowSet(table) == {table[i] : i \in DOMAIN table}

\* table has exactly one row per group of rows, holding the group's sum
OneRowPerGroup(table, rows, by) ==
    /\ Len(table) = Cardinality(KeysOf(rows, by))
    /\ RowSet(table) = Groups(rows, by)

\* each row's sum is at most the sum of the row before it
NonIncreasing(table) ==
    \A i \in DOMAIN table :
        i > 1 => ~Greater(table[i].Laid_Off_Count, table[i - 1].Laid_Off_Count)

\* C1: after load_data() has returned, no statement of the script assigns into df,
\* in the first run and in every rerun.
C1_DatasetNeverWritten == dfWrites = {}

\* C2: the all-countries view has exactly one row per distinct Country of df, each
\* holding the sum of Laid_Off_Count over the records of that country, in
\* non-increasing order of that sum, and its sums add up to the sum over df.
C2_CountryLayoffs ==
    Built("country_layoffs") =>
        /\ OneRowPerGroup(country_layoffs, df, ByCountry)
        /\ NonIncreasing(country_layoffs)
        /\ Sum(Column(country_layoffs, "Laid_Off_Count")) = Sum(Column(df, "Laid_Off_Count"))

C2_Witness ==
    /\ Built("country_layoffs")
    /\ Len(country_layoffs) >= 6
    /\ \E i \in DOMAIN country_layoffs :
          /\ country_layoffs[i].Laid_Off_Count.d > 1
          /\ Cardinality({j \in DOMAIN df :
                 KeyOf(df[j], ByCountry) = country_layoffs[i].key}) > 1

\* table is the n groups of rows with the largest sums (all groups, if there are
\* fewer than n), in non-increasing order
TopNOf(table, rows, by, n) ==
    LET groups == Groups(rows, by)
        returned == RowSet(table)
    IN  /\ Len(table) = Min(n, Cardinality(groups))
        /\ Cardinality(returned) = Len(table)
        /\ returned \subseteq groups
        /\ NonIncreasing(table)
        /\ \A g \in groups \ returned :
              \A r \in returned : ~Greater(g.Laid_Off_Count, r.Laid_Off_Count)

\* the index in df of the first record with key k
FirstAppearance(by, k) == CHOOSE i \in DOMAIN df :
    KeyOf(df[i], by) = k /\ \A j \in 1..(i - 1) : KeyOf(df[j], by) # k

\* groups with equal sums are in the order of their first record in df, in the
\* table and across the cut
TiesByFirstAppearance(table, rows, by) ==
    /\ \A i \in DOMAIN table :
          (i > 1 /\ table[i].Laid_Off_Count = table[i - 1].Laid_Off_Count) =>
              FirstAppearance(by, table[i - 1].key) < FirstAppearance(by, table[i].key)
    /\ \A g \in Groups(rows, by) \ RowSet(table) :
          \A r \in RowSet(table) :
              r.Laid_Off_Count = g.Laid_Off_Count =>
                  FirstAppearance(by, r.key) < FirstAppearance(by, g.key)

\* the records of the selected industry dated 2020 or later, in any country
IndustrySlice ==
    SelectSeq(df, LAMBDA r : r.Industry = industry_filter /\ r.Date.year >= 2020)

\* the table without its Percentage column
Counts(table) ==
    [i \in DOMAIN table |->
        [key |-> table[i].key, Laid_Off_Count |-> table[i].Laid_Off_Count]]

\* C3 as amended: every top-N view has min(N, number of groups) rows, which are
\* groups with the largest sums (no group left out has a larger sum than a group
\* returned), each with its sum, in non-increasing order.
C3_TopN ==
    /\ Built("top_countries") => TopNOf(top_countries, df, ByCountry, 5)
    /\ Built("top_industries_recent") =>
           TopNOf(top_industries_recent, RecentYears(df), ByIndustry, 5)
    /\ Built("top_companies_data") =>
           TopNOf(Counts(top_companies_data), SinceCutoff(df), ByCompanyFields, 50)
    /\ Built("top_companies_filtered") =>
           TopNOf(top_companies_filtered, IndustrySlice, ByCompanyIndustry, 10)

\* C3 as stated, on the builds whose sort leaves equal sums in input order (the
\* builds most favourable to it): as above, and groups with equal sums keep the
\* order of their first appearance in df, in the output and at the cut.
C3_TopNTiesByFirstAppearance ==
    tiePolicy = "keep" =>
    /\ C3_TopN
    /\ Built("top_countries") => TiesByFirstAppearance(top_countries, df, ByCountry)
    /\ Built("top_industries_recent") =>
           TiesByFirstAppearance(top_industries_recent, RecentYears(df), ByIndustry)
    /\ Built("top_companies_data") =>
           TiesByFirstAppearance(Counts(top_companies_data), SinceCutoff(df),
                                 ByCompanyFields)
    /\ Built("top_companies_filtered") =>
           TiesByFirstAppearance(top_companies_filtered, IndustrySlice,
                                 ByCompanyIndustry)

C3_Witness ==
    /\ pc = "done"
    /\ Len(top_countries) = 5 /\ Cardinality(KeysOf(df, ByCountry)) > 5
    /\ Len(top_industries_recent) = 5
    /\ Cardinality(KeysOf(RecentYears(df), ByIndustry)) > 5
    /\ Len(top_companies_data) = 50
    /\ Cardinality(KeysOf(SinceCutoff(df), ByCompanyFields)) > 50
    /\ Len(top_companies_filtered) = 10
    /\ Cardinality(KeysOf(IndustrySlice, ByCompanyIndustry)) > 10

ReturnedTotal == Sum(Column(top_companies_data, "Laid_Off_Count"))

\* each Percentage is the row's sum as a share of the returned rows' total, and
\* the Percentage column adds up to 100
PercentagesOfReturned ==
    /\ \A i \in DOMAIN top_companies_data :
          /\ ~top_companies_data[i].Percentage.nan
          /\ Mul(top_companies_data[i].Percentage, ReturnedTotal) =
                 Mul(Num(100), top_companies_data[i].Laid_Off_Count)
    /\ Sum(Column(top_companies_data, "Percentage")) = Num(100)

\* C4 as stated: whenever the top-50 view has a row, its Percentage is computed
\* over the returned rows and the column adds up to 100.
C4_PercentagesSumTo100 ==
    (Built("top_companies_data") /\ Len(top_companies_data) >= 1) =>
        PercentagesOfReturned

\* C4 as amended: the same, whenever the returned rows' Laid_Off_Count total is
\* not zero.
C4_PercentagesOfNonZeroTotal ==
    (Built("top_companies_data") /\ Len(top_companies_data) >= 1
        /\ ReturnedTotal # Num(0)) =>
        PercentagesOfReturned

C4_Witness ==
    /\ Built("top_companies_data")
    /\ Len(top_companies_data) = 50
    /\ ReturnedTotal # Num(0)
    /\ Greater(Sum(Column(SinceCutoff(df), "Laid_Off_Count")), ReturnedTotal)

NumericColumns == {"Laid_Off_Count", "Funds_Raised", "Percentage"}

Present(rows, c) == {i \in DOMAIN rows : ~rows[i][c].nan}

\* column c of df is the raw column with every missing entry replaced by the mean
\* of the raw entries that are not missing
MeanFilled(c) ==
    LET raw == source.rows
        total == Sum([i \in DOMAIN raw |-> raw[i][c]])
    IN  \A i \in DOMAIN raw :
            /\ ~df[i][c].nan
            /\ IF raw[i][c].nan
               THEN Mul(df[i][c], Num(Cardinality(Present(raw, c)))) = total
               ELSE df[i][c] = raw[i][c]

\* C5 as stated: after load_data() returned, none of the three numeric columns
\* has a missing value: a raw missing entry holds the mean of the column's
\* non-missing raw entries, the other entries are unchanged.
C5_NoMissingAfterLoad ==
    cacheFilled => \A c \in NumericColumns : MeanFilled(c)

\* C5 as amended: the same for every numeric column that has at least one
\* non-missing raw entry; a column with no such entry is left all missing.
C5_MeanFillWhereMeanExists ==
    cacheFilled =>
        \A c \in NumericColumns :
            IF Present(source.rows, c) # {} THEN MeanFilled(c)
            ELSE \A i \in DOMAIN df : df[i][c].nan

C5_Witness ==
    /\ cacheFilled
    /\ \E i, j, k \in DOMAIN df :
          /\ source.rows[i].Laid_Off_Count.nan
          /\ ~source.rows[j].Laid_Off_Count.nan /\ ~source.rows[k].Laid_Off_Count.nan
          /\ source.rows[j].Laid_Off_Count # source.rows[k].Laid_Off_Count
          /\ df[i].Laid_Off_Count.d > 1

\* what load_data has done to the records before it rewrites Country
Cleaned(rows) ==
    ToDatetimeColumn(
        FillMean(FillMean(FillMean(rows, "Laid_Off_Count"), "Funds_Raised"), "Percentage"))

\* C6: load_data rewrites Country "United States" to "United States of America"
\* and no other Country; it changes no other field, nor the order or the number of
\* the records; no record of df has Country "United States".
C6_CountryNormalization ==
    cacheFilled =>
        /\ Len(df) = Len(source.rows)
        /\ \A i \in DOMAIN df :
              /\ df[i].Country # "United States"
              /\ df[i].Country =
                     IF source.rows[i].Country = "United States"
                     THEN "United States of America" ELSE source.rows[i].Country
              /\ df[i].Company = source.rows[i].Company
              /\ df[i].Industry = source.rows[i].Industry
              /\ df[i].Location_HQ = source.rows[i].Location_HQ
              /\ df[i].Stage = source.rows[i].Stage
              /\ [df[i] EXCEPT !.Country = source.rows[i].Country] =
                     Cleaned(source.rows)[i]

C6_Witness ==
    /\ cacheFilled
    /\ \E i, j \in DOMAIN df :
          /\ source.rows[i].Country = "United States"
          /\ df[i].Country = "United States of America"
          /\ source.rows[j].Country = "United States Virgin Islands"
          /\ df[j].Country = "United States Virgin Islands"

\* the failure kind the design gives an exception of load_data
FailureKind(exc) ==
    CASE exc = "FileNotFoundError" -> "DataUnavailable"
      [] exc \in {"KeyError", "ValueError"} -> "MalformedSchema"
      [] OTHER -> "none"

\* load_data was called and raised: the run is over, nothing was cached, df is
\* not bound and no view was built
FailedInLoad(kind) ==
    /\ pc = "failed" /\ FailureKind(error) = kind
    /\ ~cacheFilled /\ df = << >> /\ Unbound

\* load_data returned a dataset; what fails afterwards fails in the script
LoadReturned ==
    /\ cacheFilled
    /\ Len(df) = Len(source.rows)
    /\ error # "none" => pc = "failed" /\ error = "KeyError" /\ source.cols # Columns

\* the columns load_data itself reads
LoadColumns == {"Laid_Off_Count", "Funds_Raised", "Percentage", "Date", "Country"}

\* C9 as stated: load_data fails with DataUnavailable on a missing or unreadable
\* file and with MalformedSchema when any required column is absent or a Date
\* cannot be parsed; it fails in no other case, and a failure ends the run with
\* no dataset and no view.
C9_LoadFailsOnAnyMissingColumn ==
    pc # "load" =>
        IF ~source.readable THEN FailedInLoad("DataUnavailable")
        ELSE IF source.cols # Columns \/ ~AllParseable(source.rows)
             THEN FailedInLoad("MalformedSchema")
             ELSE LoadReturned /\ error = "none"

\* C9 as amended: load_data fails with DataUnavailable on a missing or unreadable
\* file and with MalformedSchema when one of the columns it reads (Laid_Off_Count,
\* Funds_Raised, Percentage, Date, Country) is absent or a Date cannot be parsed,
\* ending the run with no dataset and no view; in every other case, an absent
\* Company, Industry, Location_HQ or Stage column included, it returns a dataset.
C9_LoadFailsOnColumnsItReads ==
    pc # "load" =>
        IF ~source.readable THEN FailedInLoad("DataUnavailable")
        ELSE IF ~(LoadColumns \subseteq source.cols) \/ ~AllParseable(source.rows)
             THEN FailedInLoad("MalformedSchema")
             ELSE LoadReturned

C9_Witness ==
    /\ source.readable /\ "Percentage" \notin source.cols
    /\ FailedInLoad("MalformedSchema")

\* the records the selections of the current run match
Matching == {i \in DOMAIN df :
                df[i].Industry = industry_filter /\ df[i].Country = country_filter}

\* the records of the selected industry dated 2020 or later, in any country
IndustrySince2020 == {i \in DOMAIN df :
                         df[i].Industry = industry_filter /\ df[i].Date.year >= 2020}

\* the selections are made and the file has every column the script reads
Selected == cacheFilled /\ source.cols = Columns /\ pc \notin {"load", "select"}

\* an empty slice has given a zero-row table and no exception
EmptySliceHandled ==
    Selected =>
        /\ (Matching = {} \/ IndustrySince2020 = {}) => error = "none" /\ pc # "failed"
        /\ (Matching = {} /\ Built("df_time_series")) => df_time_series = << >>
        /\ (IndustrySince2020 = {} /\ Built("top_companies_filtered")) =>
               top_companies_filtered = << >>

\* C7: when the selections match no record, the yearly view is a zero-row table
\* and the run raises nothing: every step it takes leads to the next statement of
\* the script, so every following view is built; the top-10 view of an industry
\* without a record since 2020 is a zero-row table too.
C7_EmptySliceIsEmptyTable ==
    [][/\ EmptySliceHandled'
       /\ (Selected /\ (Matching = {} \/ IndustrySince2020 = {}) /\ pc # "done") =>
              pc' = ScriptOrder[Position(pc) + 1]]_vars

C7_Witness ==
    /\ pc = "done" /\ error = "none"
    /\ Len(df) > 0
    /\ Matching = {} /\ df_time_series = << >>
    /\ IndustrySince2020 = {} /\ top_companies_filtered = << >>
    /\ Len(stage_layoffs) > 0 /\ Len(scatter) > 0

\* the yearly view holds, in ascending order of year, one row per year in which a
\* record matches the selections, with the sum over the matching records of the year
YearlyOfMatching ==
    /\ RowSet(df_time_series) =
           {[key |-> << df[i].Date.year >>,
             Laid_Off_Count |->
                 Sum([j \in DOMAIN df |->
                        IF j \in Matching /\ df[j].Date.year = df[i].Date.year
                        THEN df[j].Laid_Off_Count ELSE Num(0)])] :
               i \in Matching}
    /\ \A i \in DOMAIN df_time_series :
          i > 1 => df_time_series[i - 1].key[1] < df_time_series[i].key[1]

OutsideCountryDomain ==
    /\ country_filter # "<unbound>"
    /\ \A i \in DOMAIN CountryOptions : CountryOptions[i] # country_filter

SameAsPreviousRun ==
    /\ top_countries = prev.top_countries
    /\ country_layoffs = prev.country_layoffs
    /\ top_industries_recent = prev.top_industries_recent
    /\ top_companies = prev.top_companies
    /\ top_companies_data = prev.top_companies_data
    /\ stage_layoffs = prev.stage_layoffs
    /\ scatter = prev.scatter
    /\ industry_filter = prev.industry_filter =>
           top_companies_filtered = prev.top_companies_filtered

\* C10: over reruns, a view changes only with the selections it takes: the country
\* selection reaches the yearly view alone, the industry selection the yearly view
\* and the top-10 view alone.  The yearly view is built from the records of the
\* selected industry and country of any year, the top-10 view from the records of
\* the selected industry since 2020 of any country.
C10_ViewsDependOnOwnFilters ==
    /\ (prev.valid /\ pc = "done") => SameAsPreviousRun
    /\ (Selected /\ Built("df_time_series")) => YearlyOfMatching
    /\ (Selected /\ Built("top_companies_filtered")) =>
           TopNOf(top_companies_filtered, IndustrySlice, ByCompanyIndustry, 10)

C10_Witness ==
    /\ prev.valid /\ pc = "done"
    /\ industry_filter = prev.industry_filter
    /\ country_filter # prev.country_filter
    /\ df_time_series # prev.df_time_series
    /\ \E i \in DOMAIN df_time_series : df_time_series[i].key = << 2019 >>
    /\ \E i \in DOMAIN df : /\ df[i].Industry = industry_filter
                            /\ df[i].Date.year >= 2020
                            /\ df[i].Country # country_filter
                            /\ df[i].Country # prev.country_filter
    /\ top_companies_filtered # << >>

====
